---- MODULE Spec2Model ----
(***************************************************************************)
(* A model of the Ahrefs monitoring dashboard: the stats normalisation    *)
(* layer (stats_service.py), the HTTP client (ahrefs_client.py) and the   *)
(* mode selection / fetch wrapper of the Streamlit page (app.py).         *)
(*                                                                         *)
(* JSON values are records [k, n, s, d]: k is the Python type of the      *)
(* value ("null", "int", "float", "numstr", "str", "list", "dict"), n     *)
(* the integer int() yields for it (a float is n + 0.5 and truncates to   *)
(* n, a "numstr" is the decimal text of n), s the text of a "str", d the  *)
(* members of a dict or list.  A dict is a function whose DOMAIN is the   *)
(* set of keys present.                                                    *)
(***************************************************************************)
EXTENDS Integers, Sequences, FiniteSets, TLC

VARIABLES
    payload,      \* stats_service: the overview payload handed to the extractor
    focus,        \* stats_service: the metric whose candidate keys the payload uses
    extracted,    \* stats_service: result of _extract_metrics_from_overview, or NoResult
    xpc,          \* stats_service: "build" while the payload is put together, "done" after the call
    change_value, \* app: the argument of format_change_value
    formatted,    \* app: what format_change_value returned, or NoResult
    fpc,          \* app: "call" before format_change_value ran, "done" after
    target,       \* client: the target argument of overview (a string)
    ocountry,     \* client: the country argument of overview ("None": not given)
    script,       \* client: the answers the vendor API gives, request by request
    requests,     \* client: the requests sent so far, in order
    outcome,      \* client: what the last _get returned or raised
    ometrics,     \* client: overview's local dict `metrics`
    oerrors,      \* client: overview's local list `errors`
    ofocus,       \* client: the endpoint whose answer shapes are varied
    cpc,          \* client: position inside _get / overview
    sargs,        \* stats_service: the arguments of the get_domain_stats call
    sresult,      \* stats_service: what get_domain_stats returned or raised
    spc,          \* stats_service: "call" before get_domain_stats ran, "done" after
    secrets,      \* app: st.secrets -- whether it can be read, and its entries
    env,          \* app: the process environment (os.environ after load_dotenv)
    USE_MOCK_DATA,    \* app: the module global of that name
    AHREFS_TOKEN,     \* app: the module global of that name
    AHREFS_API_TOKEN, \* config: the module global of that name
    acall,        \* app: the arguments of the last fetch_stats call, or NoResult
    aresult,      \* app: what the last fetch_stats call returned or raised
    clients,      \* app: AhrefsClient objects constructed so far
    sent,         \* app: HTTP requests issued so far
    ncalls,       \* app: fetch_stats calls made so far
    apc           \* app: "boot" while the module body runs, "ready" after

extractVars == <<payload, focus, extracted, xpc>>

formatVars == <<change_value, formatted, fpc>>

clientVars ==
    <<target, ocountry, script, requests, outcome, ometrics, oerrors, ofocus, cpc>>

statsVars == <<sargs, sresult, spc>>

appVars ==
    <<secrets, env, USE_MOCK_DATA, AHREFS_TOKEN, AHREFS_API_TOKEN, acall, aresult, clients,
      sent, ncalls, apc>>

vars == <<extractVars, formatVars, clientVars, statsVars, appVars>>

-----------------------------------------------------------------------------
(* Bounds of the model.                                                    *)

\* most entries (key/value pairs, over all containers) a generated payload holds
MaxEntries == 2

\* largest magnitude of the generated changes (the fixture changes are added to them)
MaxChange == 2100

\* most answers the vendor API has ready when _get is called on its own
MaxScript == 2

\* most members of the dict a generated endpoint answer carries its values in
MaxMembers == 2

\* most fetch_stats calls followed after start-up
MaxCalls == 2

-----------------------------------------------------------------------------
(* JSON values and dicts.                                                  *)

EmptyDict == [x \in {} |-> x]

Null == [k |-> "null", n |-> 0, s |-> <<>>, d |-> EmptyDict]

JInt(i) == [k |-> "int", n |-> i, s |-> <<>>, d |-> EmptyDict]

JFloat(i) == [k |-> "float", n |-> i, s |-> <<>>, d |-> EmptyDict]

\* the float infinity, which json reads from a number such as 1e999: int() raises
\* OverflowError for it
JInf == [k |-> "inf", n |-> 0, s |-> <<>>, d |-> EmptyDict]

\* the decimal text of the natural number i (str.isdigit() holds, int() parses it)
JNumStr(i) == [k |-> "numstr", n |-> i, s |-> <<>>, d |-> EmptyDict]

\* a text int() rejects; a text is a sequence of pieces of text
JText(t) == [k |-> "str", n |-> 0, s |-> t, d |-> EmptyDict]

JStr == JText(<<"n/a">>)

\* a list: its items under the keys "0", "1", ...
JListOf(items) == [k |-> "list", n |-> 0, s |-> <<>>, d |-> items]

JList == JListOf(EmptyDict)

JDict(members) == [k |-> "dict", n |-> 0, s |-> <<>>, d |-> members]

NoResult == [none |-> TRUE]

DigitChars == <<"0", "1", "2", "3", "4", "5", "6", "7", "8", "9">>

\* str(n) of a natural number
RECURSIVE Digits(_)
Digits(n) ==
    IF n < 10 THEN <<DigitChars[n + 1]>>
    ELSE Digits(n \div 10) \o <<DigitChars[(n % 10) + 1]>>

\* key in d
Has(d, key) == key \in DOMAIN d

\* d.get(key): None when the key is absent
Get(d, key) == IF key \in DOMAIN d THEN d[key] ELSE Null

\* d[key] = v on a copy of d
Put(d, key, v) == [x \in DOMAIN d \cup {key} |-> IF x = key THEN v ELSE d[x]]

\* isinstance(v, dict)
IsDict(v) == v.k = "dict"

\* bool(v): None, 0, "", [] and {} are falsy (the floats of the model, n + 0.5,
\* and its numeric texts are never empty or zero)
Truthy(v) ==
    CASE v.k = "null" -> FALSE
      [] v.k = "int" -> v.n # 0
      [] v.k = "float" -> TRUE
      [] v.k = "inf" -> TRUE
      [] v.k = "numstr" -> TRUE
      [] v.k = "str" -> v.s # <<>>
      [] v.k = "list" -> DOMAIN v.d # {}
      [] v.k = "dict" -> DOMAIN v.d # {}

\* the keys of the model's universe that start with "_" (str.startswith("_"))
UnderscoreKeys ==
    {"_raw", "_debug_info", "_errors", "_raw_dr_response", "_raw_metrics_response",
     "_extracted_data", "_raw_backlinks_response", "_extracted_ref_domains",
     "_extracted_ref_domains_int", "_extracted_ref_domains_source"}

StartsWithUnderscore(key) == key \in UnderscoreKeys

-----------------------------------------------------------------------------
(* stats_service.py                                                        *)

\* mutant: the paid metrics are left out of the returned dict
MetricNamesWithoutPaid ==
    {"organic_traffic", "organic_keywords", "ref_domains", "authority_score"}

MetricNames ==
    {"organic_traffic", "organic_keywords", "paid_traffic", "paid_keywords",
     "ref_domains", "authority_score"}

\* the candidate keys of each metric, in the order the code tries them
CandidateKeys(m) ==
    CASE m = "organic_traffic" -> <<"organic_traffic", "organicTraffic", "org_traffic">>
      [] m = "organic_keywords" -> <<"organic_keywords", "organicKeywords", "org_keywords">>
      [] m = "paid_traffic" -> <<"paid_traffic", "paidTraffic">>
      [] m = "paid_keywords" -> <<"paid_keywords", "paidKeywords">>
      [] m = "ref_domains" ->
            <<"ref_domains", "referring_domains", "referringDomains", "refdomains">>
      [] m = "authority_score" -> <<"domain_rating", "domainRating", "dr">>

\* the metrics the code also looks up in the top-level payload
HasTopLevelFallback(m) == m \notin {"paid_traffic", "paid_keywords"}

\* int(value) guarded by try/except (TypeError, ValueError)
_safe_int(value) ==
    CASE value.k = "null" -> 0
      [] value.k = "int" -> value.n
      [] value.k = "float" -> value.n
      [] value.k = "numstr" -> value.n
      [] value.k = "str" -> 0
      [] value.k = "list" -> 0
      [] value.k = "dict" -> 0

\* mutant: the loop takes the first key present, without the "is not None" test
RECURSIVE FirstPresent(_, _)
FirstPresent(d, keys) ==
    IF keys = <<>> THEN Null
    ELSE IF Has(d, Head(keys)) THEN d[Head(keys)]
    ELSE FirstPresent(d, Tail(keys))

\* for key in keys: if key in d and d[key] is not None: take it; break
RECURSIVE FirstNonNull(_, _)
FirstNonNull(d, keys) ==
    IF keys = <<>> THEN Null
    ELSE IF Has(d, Head(keys)) /\ d[Head(keys)] # Null THEN d[Head(keys)]
    ELSE FirstNonNull(d, Tail(keys))

\* the dict the candidate keys are looked up in first
SelectMetrics(p) ==
    IF Has(p, "metrics") /\ IsDict(p["metrics"]) /\ ~Truthy(Get(p["metrics"].d, "_raw"))
    THEN p["metrics"].d
    ELSE [x \in {y \in DOMAIN p : ~StartsWithUnderscore(y)} |-> p[x]]

ExtractOne(p, m) ==
    LET metrics == SelectMetrics(p)
        inMetrics == FirstNonNull(metrics, CandidateKeys(m))
        found == IF inMetrics = Null /\ HasTopLevelFallback(m)
                 THEN FirstNonNull(p, CandidateKeys(m))
                 ELSE inMetrics
    IN  IF found # Null THEN _safe_int(found) ELSE 0

_extract_metrics_from_overview(p) == [m \in MetricNames |-> ExtractOne(p, m)]

-----------------------------------------------------------------------------
(* The extractor applied to generated payloads.                            *)

Containers == {"top", "metrics", "data"}

\* the number a generated value carries: one per (container, candidate position)
RECURSIVE IndexOf(_, _)
IndexOf(keys, key) ==
    IF keys = <<>> THEN 0
    ELSE IF Head(keys) = key THEN 1
    ELSE 1 + IndexOf(Tail(keys), key)

SlotNumber(c, m, key) ==
    (CASE c = "top" -> 10 [] c = "metrics" -> 20 [] c = "data" -> 30)
    + (CASE key = "_raw" -> 8 [] key = "_debug_info" -> 9
         [] OTHER -> IndexOf(CandidateKeys(m), key))

SeqToSet(s) == {s[i] : i \in DOMAIN s}

GenKeys(m) == SeqToSet(CandidateKeys(m)) \cup {"_raw", "_debug_info"}

GenValues(i) == {Null, JInt(i), JInt(0), JFloat(i), JNumStr(i), JStr, JList}

\* entries of a payload: over the top level and its nested dicts
RECURSIVE SumOver(_, _)
SumOver(f, S) ==
    IF S = {} THEN 0
    ELSE LET x == CHOOSE y \in S : TRUE IN f[x] + SumOver(f, S \ {x})

EntryCount(p) ==
    SumOver([x \in DOMAIN p |-> IF IsDict(p[x]) THEN Cardinality(DOMAIN p[x].d) ELSE 1],
            DOMAIN p)

\* payload with container[key] = v
PutIn(p, c, key, v) ==
    IF c = "top" THEN Put(p, key, v)
    ELSE Put(p, c, JDict(Put(IF Has(p, c) THEN p[c].d ELSE EmptyDict, key, v)))

HasIn(p, c, key) ==
    IF c = "top" THEN Has(p, key) ELSE Has(p, c) /\ Has(p[c].d, key)

ExtractIdle ==
    /\ payload = EmptyDict
    /\ focus = "organic_traffic"
    /\ extracted = NoResult
    /\ xpc = "off"

FormatIdle ==
    /\ change_value = [isNone |-> TRUE, v |-> 0]
    /\ formatted = NoResult
    /\ fpc = "off"

StatsIdle ==
    /\ sargs = NoResult
    /\ sresult = NoResult
    /\ spc = "off"

AppIdle ==
    /\ secrets = NoResult
    /\ env = NoResult
    /\ USE_MOCK_DATA = TRUE
    /\ AHREFS_TOKEN = <<>>
    /\ AHREFS_API_TOKEN = <<>>
    /\ acall = NoResult
    /\ aresult = NoResult
    /\ clients = 0
    /\ sent = 0
    /\ ncalls = 0
    /\ apc = "off"

ClientIdle ==
    /\ target = <<>>
    /\ ocountry = "None"
    /\ script = <<>>
    /\ requests = <<>>
    /\ outcome = NoResult
    /\ ometrics = EmptyDict
    /\ oerrors = <<>>
    /\ ofocus = "none"
    /\ cpc = "off"

InitExtract ==
    /\ payload = EmptyDict
    /\ focus \in MetricNames
    /\ extracted = NoResult
    /\ xpc = "build"
    /\ FormatIdle
    /\ ClientIdle
    /\ StatsIdle
    /\ AppIdle

AddEntry ==
    /\ xpc = "build"
    /\ EntryCount(payload) < MaxEntries
    /\ \E c \in Containers, key \in GenKeys(focus) :
         /\ ~HasIn(payload, c, key)
         /\ \E v \in GenValues(SlotNumber(c, focus, key)) :
              payload' = PutIn(payload, c, key, v)
    /\ UNCHANGED <<focus, extracted, xpc, formatVars, clientVars, statsVars, appVars>>

Extract ==
    /\ xpc = "build"
    /\ extracted' = _extract_metrics_from_overview(payload)
    /\ xpc' = "done"
    /\ UNCHANGED <<payload, focus, formatVars, clientVars, statsVars, appVars>>

NextExtract == AddEntry \/ Extract

SpecExtract == InitExtract /\ [][NextExtract]_vars

-----------------------------------------------------------------------------
(* Claims about _extract_metrics_from_overview.                            *)

\* the four metrics C1 names
C1Metrics == {"organic_traffic", "organic_keywords", "ref_domains", "authority_score"}

\* a number, or the decimal text of one
IsNumeric(v) == v.k \in {"int", "float", "numstr"}

IntegerValue(v) == IF IsNumeric(v) THEN v.n ELSE 0

\* position of the first key of keys that d holds with a value satisfying Good; 0 if none
FirstPosition(d, keys, Good(_)) ==
    LET hits == {i \in DOMAIN keys : Has(d, keys[i]) /\ Good(d[keys[i]])}
    IN  IF hits = {} THEN 0 ELSE CHOOSE i \in hits : \A j \in hits : i <= j

ValueAt(d, keys, i) == IF i = 0 THEN Null ELSE d[keys[i]]

NonNull(v) == v # Null

NonNullNumeric(v) == v # Null /\ IsNumeric(v)

\* a payload with no nested container
IsFlat(p) == \A x \in DOMAIN p : ~IsDict(p[x])

C1_Primary(p) ==
    IF "metrics" \in DOMAIN p /\ p["metrics"].k = "dict"
       /\ ("_raw" \notin DOMAIN p["metrics"].d \/ ~Truthy(p["metrics"].d["_raw"]))
    THEN p["metrics"].d
    ELSE [x \in DOMAIN p \ UnderscoreKeys |-> p[x]]

AllCandidatesNonZeroInts(p, m) ==
    \A c \in Containers, key \in SeqToSet(CandidateKeys(m)) :
        HasIn(p, c, key) =>
            LET v == IF c = "top" THEN p[key] ELSE p[c].d[key]
            IN  v.k = "int" /\ v.n # 0

SomeCandidate(p, m) ==
    \E c \in Containers, key \in SeqToSet(CandidateKeys(m)) : HasIn(p, c, key)

\* C2 as stated: a metric whose candidate key holds a (non-zero) number at the top
\* level, in the nested "metrics" dict or in the nested "data" dict is never
\* reported as 0.
C2_NestingNeverZeroes ==
    (xpc = "done" /\ SomeCandidate(payload, focus)
        /\ AllCandidatesNonZeroInts(payload, focus)) =>
        extracted[focus] # 0

\* the payload without its top-level keys that start with "_"
StripDebug(p) == [x \in DOMAIN p \ UnderscoreKeys |-> p[x]]

\* no candidate key of m holds a non-null value anywhere in the payload
NoValueAnywhere(p, m) ==
    \A c \in Containers, key \in SeqToSet(CandidateKeys(m)) :
        HasIn(p, c, key) => (IF c = "top" THEN p[key] ELSE p[c].d[key]) = Null

-----------------------------------------------------------------------------
(* app.py: format_change_value.  Strings are sequences of characters.      *)

Abs(x) == IF x < 0 THEN -x ELSE x

\* f"{int(x)}": the minus sign comes from the number itself
IntText(x) == IF x < 0 THEN <<"-">> \o Digits(-x) ELSE Digits(x)

\* f"{a / 1000:.1f}" for a natural a that is no rounding tie (a % 100 # 50)
OneDecimalOfThousandths(a) ==
    LET tenths == (a + 50) \div 100
    IN  Digits(tenths \div 10) \o <<".">> \o <<DigitChars[(tenths % 10) + 1]>>

PyNone == [isNone |-> TRUE, v |-> 0]

PyNum(x) == [isNone |-> FALSE, v |-> x]

PyText(t) == [isNone |-> FALSE, v |-> t]

format_change_value(cv) ==
    IF cv.isNone THEN PyNone
    ELSE LET abs_change == Abs(cv.v)
             sign == IF cv.v >= 0 THEN <<"+">> ELSE <<>>
         IN  IF abs_change >= 1000
             THEN IF abs_change % 1000 = 0
                  THEN PyText(sign \o Digits(abs_change \div 1000) \o <<"K">>)
                  ELSE PyText(sign \o OneDecimalOfThousandths(abs_change) \o <<"K">>)
             ELSE PyText(sign \o IntText(cv.v))

\* the change values of the fixtures in mock_data.py
MockChanges == {-230, 530, 2317, -667, -40000, 309, 2, -5, 4344, 0}

\* changes are differences of integers; a tie of the one-decimal rounding
\* (x.x5 thousand) depends on the binary float and is left out
ChangeInputs ==
    {PyNone} \cup
    {PyNum(x) : x \in {y \in (-MaxChange..MaxChange) \cup MockChanges :
                          Abs(y) < 1000 \/ Abs(y) % 100 # 50}}

InitFormat ==
    /\ ExtractIdle
    /\ ClientIdle
    /\ StatsIdle
    /\ AppIdle
    /\ change_value \in ChangeInputs
    /\ formatted = NoResult
    /\ fpc = "call"

Format ==
    /\ fpc = "call"
    /\ formatted' = format_change_value(change_value)
    /\ fpc' = "done"
    /\ UNCHANGED <<change_value, extractVars, clientVars, statsVars, appVars>>

NextFormat == Format

SpecFormat == InitFormat /\ [][NextFormat]_vars

\* C9 as stated: None for None; otherwise "-" before every negative change and
\* "+" before every non-negative one, followed by the plain integer magnitude
\* below 1000 and by the magnitude in thousands (one decimal unless whole) and
\* "K" from 1000 on.
C9_SignedAhrefsStyle ==
    fpc = "done" =>
        IF change_value.isNone THEN formatted = PyNone
        ELSE LET a == Abs(change_value.v)
                 lead == IF change_value.v < 0 THEN <<"-">> ELSE <<"+">>
                 body == IF a < 1000 THEN Digits(a)
                         ELSE IF a % 1000 = 0 THEN Digits(a \div 1000) \o <<"K">>
                         ELSE OneDecimalOfThousandths(a) \o <<"K">>
             IN  formatted = PyText(lead \o body)

-----------------------------------------------------------------------------
(* ahrefs_client.py: _get.                                                 *)

\* an answer of the vendor API to one request: requests.get raises (net), or
\* gives a response with a status and a body that is JSON (body) or is not
NetError == [net |-> TRUE, status |-> 0, isJson |-> FALSE, body |-> Null]

HttpAnswer(status, isJson, body) ==
    [net |-> FALSE, status |-> status, isJson |-> isJson, body |-> body]

JsonOk(body) == HttpAnswer(200, TRUE, body)

Returned(json) == [exc |-> "", status |-> 200, msg |-> <<>>, json |-> json]

Raised(exc, status, msg) == [exc |-> exc, status |-> status, msg |-> msg, json |-> Null]

\* resp.ok
RespOk(answer) == answer.status < 400

\* str(v) of a JSON value
TextOf(v) == IF v.k = "str" THEN v.s ELSE <<"str(", v.k, ")">>

\* the detail appended to the message of the HTTPError
ErrorDetail(answer) ==
    IF ~answer.isJson THEN <<"resp.text[:200]">>
    ELSE IF IsDict(answer.body)
         THEN IF Has(answer.body.d, "error") THEN TextOf(answer.body.d["error"])
              ELSE IF Has(answer.body.d, "message") THEN TextOf(answer.body.d["message"])
              ELSE TextOf(answer.body)
         ELSE TextOf(answer.body)

\* the context added for some status codes
StatusHint(status) ==
    CASE status = 401 -> <<" (Invalid API token. Please check your A_HREFS_API_TOKEN in Streamlit secrets.)">>
      [] status = 403 -> <<" (API token doesn't have permission for this endpoint or rate limit exceeded.)">>
      [] status = 404 -> <<" (API endpoint not found. Please check the API documentation.)">>
      [] status = 429 -> <<" (Rate limit exceeded. Please try again later.)">>
      [] OTHER -> <<>>

\* one requests.get; the answer is the vendor's answer to that request
_get(answer) ==
    IF answer.net THEN Raised("ConnectionError", 0, <<"ConnectionError">>)
    ELSE IF ~RespOk(answer)
         THEN Raised("HTTPError", answer.status,
                     <<"Ahrefs API error: HTTP ">> \o Digits(answer.status) \o <<" - ">>
                     \o ErrorDetail(answer) \o StatusHint(answer.status))
    ELSE IF ~answer.isJson
         THEN Raised("JSONDecodeError", answer.status, <<"Expecting value">>)
    ELSE Returned(answer.body)

\* the answers the vendor gives when _get is exercised on its own
StatusCodes == {200, 400, 401, 403, 404, 429, 500, 503}

PlainBodies == {JDict([error |-> JText(<<"boom">>)]), JDict([metrics |-> JDict(EmptyDict)])}

HttpAnswers ==
    {NetError} \cup {HttpAnswer(st, TRUE, b) : st \in StatusCodes, b \in PlainBodies}
    \cup {HttpAnswer(st, FALSE, Null) : st \in StatusCodes}

InitHttp ==
    /\ ExtractIdle
    /\ FormatIdle
    /\ StatsIdle
    /\ AppIdle
    /\ target = <<>>
    /\ ocountry = "None"
    /\ script = <<>>
    /\ requests = <<>>
    /\ outcome = NoResult
    /\ ometrics = EmptyDict
    /\ oerrors = <<>>
    /\ ofocus = "none"
    /\ cpc = "idle"

\* the vendor has one more answer ready
ServerAnswer ==
    /\ cpc = "idle"
    /\ Len(script) < MaxScript
    /\ \E a \in HttpAnswers : script' = Append(script, a)
    /\ UNCHANGED <<target, ocountry, requests, outcome, ometrics, oerrors, ofocus, cpc,
                   extractVars, formatVars, statsVars, appVars>>

\* self._get(path, params): a single request, answered by the next answer
CallGet ==
    /\ cpc = "idle"
    /\ Len(requests) < Len(script)
    /\ requests' = Append(requests, [path |-> "site-explorer/metrics", params |-> EmptyDict])
    /\ outcome' = _get(script[Len(requests) + 1])
    /\ cpc' = "done"
    /\ UNCHANGED <<target, ocountry, script, ometrics, oerrors, ofocus, extractVars, formatVars,
                   statsVars, appVars>>

NextHttp == ServerAnswer \/ CallGet

SpecHttp == InitHttp /\ [][NextHttp]_vars

IsServerError(answer) == ~answer.net /\ answer.status >= 500

\* C6 as stated: a request answered with a 5xx status is sent again before the
\* failure is reported, and a single 5xx answer followed by a successful answer
\* yields the successful result.
C6_RetryOn5xx ==
    (cpc = "done" /\ Len(script) >= 2 /\ IsServerError(script[1])
        /\ ~script[2].net /\ script[2].status = 200 /\ script[2].isJson) =>
        /\ Len(requests) >= 2
        /\ outcome = Returned(script[2].body)

-----------------------------------------------------------------------------
(* ahrefs_client.py: AhrefsClient.overview.                                *)

\* value or fallback, Python's `or`
PyOr(a, b) == IF Truthy(a) THEN a ELSE b

\* isinstance(v, (int, float))
IsNumber(v) == v.k \in {"int", "float", "inf"}

\* int(value) raises OverflowError, which neither _safe_int nor the isinstance
\* tests keep away
IntRaises(value) == value.k = "inf"

\* what the except clause of a step gets when a conversion raised
ConversionRaised == [msg |-> <<"cannot convert float infinity to integer">>]

\* int(value) guarded by try/except (TypeError, ValueError), the client's copy;
\* applied where IntRaises(value) does not hold
ClientSafeInt(value) ==
    CASE value.k = "null" -> 0
      [] value.k = "int" -> value.n
      [] value.k = "float" -> value.n
      [] value.k = "numstr" -> value.n
      [] value.k = "str" -> 0
      [] value.k = "list" -> 0
      [] value.k = "dict" -> 0

\* str.count(ch)
RECURSIVE CountChar(_, _)
CountChar(str, ch) ==
    IF str = <<>> THEN 0
    ELSE (IF Head(str) = ch THEN 1 ELSE 0) + CountChar(Tail(str), ch)

\* mutant: the target is sent as it was given
TargetAsGiven(t) == t

\* the target with a trailing slash
NormalizeTarget(t) == IF t # <<>> /\ t[Len(t)] = "/" THEN t ELSE t \o <<"/">>

\* "prefix" for a target with a path, "subdomains" for a bare domain
ModeOf(t) ==
    IF CountChar(NormalizeTarget(t), "/") >= 1 /\ CountChar(NormalizeTarget(t), "/") > 1
    THEN "prefix" ELSE "subdomains"

metrics_params(t) ==
    [target |-> NormalizeTarget(t), date |-> "today", mode |-> ModeOf(t),
     protocol |-> "both", volume_mode |-> "monthly"]

dr_params(t) == [target |-> NormalizeTarget(t), date |-> "today", protocol |-> "both"]

backlinks_params(t) ==
    [target |-> NormalizeTarget(t), date |-> "today", mode |-> ModeOf(t),
     protocol |-> "both"]

\* {k: v for k, v in params.items() if k != "country"}
WithoutCountry(params) == [x \in DOMAIN params \ {"country"} |-> params[x]]

\* f"{endpoint}: {str(e)}", the text appended to `errors`
ErrorText(endpoint, out) == JText(<<endpoint, ": ">> \o out.msg)

\* 1. Domain rating ---------------------------------------------------------

DRValue(resp) ==
    IF Has(resp.d, "domain_rating")
    THEN LET inner == resp.d["domain_rating"]
         IN  IF IsDict(inner)
             THEN PyOr(PyOr(Get(inner.d, "domain_rating"), Get(inner.d, "dr")),
                       Get(inner.d, "value"))
             ELSE inner
    ELSE PyOr(PyOr(Get(resp.d, "domain_rating"), Get(resp.d, "dr")), Get(resp.d, "value"))

DRInt(v) ==
    IF v.k # "null"
    THEN IF IsNumber(v) THEN v.n
         ELSE IF v.k = "numstr" THEN v.n
         ELSE 0
    ELSE 0

\* the value int() is applied to in the domain-rating step
DRConverted(r) == IF IsDict(r) THEN DRValue(r) ELSE r

DomainRatingStep(m, errs, out) ==
    IF out.exc # ""
    THEN [metrics |-> Put(m, "domain_rating", JInt(0)),
          errors |-> Append(errs, ErrorText("Domain Rating", out))]
    ELSE IF IntRaises(DRConverted(out.json))
    THEN [metrics |-> Put(Put(m, "_raw_dr_response", out.json), "domain_rating", JInt(0)),
          errors |-> Append(errs, ErrorText("Domain Rating", ConversionRaised))]
    ELSE LET r == out.json
             m1 == Put(m, "_raw_dr_response", r)
         IN  [metrics |->
                 IF IsDict(r) THEN Put(m1, "domain_rating", JInt(DRInt(DRValue(r))))
                 ELSE IF IsNumber(r) THEN Put(m1, "domain_rating", JInt(r.n))
                 ELSE Put(m1, "domain_rating", JInt(0)),
              errors |-> errs]

\* 2. Metrics ---------------------------------------------------------------

KeywordKeys ==
    <<"org_keywords", "organic_keywords", "organicKeywords", "keywords",
      "organic_keywords_count", "org_keywords_count">>

TrafficKeys ==
    <<"org_traffic", "organic_traffic", "organicTraffic", "traffic",
      "organic_traffic_count", "org_traffic_count">>

\* the dict the metrics are read from
MetricsData(resp) ==
    LET a == Get(resp.d, "metrics")
        b == IF a.k = "null" THEN Get(resp.d, "data") ELSE a
        c == IF b.k = "null" THEN resp ELSE b
        e == IF c.k = "list" /\ DOMAIN c.d # {} THEN c.d["0"] ELSE c
    IN  IF IsDict(e) THEN e.d ELSE EmptyDict

\* for key in keys: if key in data: take data[key]; break
RECURSIVE FirstKeyPresent(_, _)
FirstKeyPresent(data, keys) ==
    IF keys = <<>> THEN Null
    ELSE IF Has(data, Head(keys)) THEN data[Head(keys)]
    ELSE FirstKeyPresent(data, Tail(keys))

\* the value taken for a metric: the key loop, then data["organic"]
OrganicValue(data, keys, member, memberCount) ==
    LET v == FirstKeyPresent(data, keys)
    IN  IF v.k = "null" /\ Has(data, "organic") /\ IsDict(data["organic"])
        THEN PyOr(Get(data["organic"].d, member), Get(data["organic"].d, memberCount))
        ELSE v

OrganicInt(v) == IF v.k # "null" THEN ClientSafeInt(v) ELSE 0

\* a conversion of the metrics step raises
MetricsRaises(r) ==
    /\ IsDict(r)
    /\ \/ IntRaises(OrganicValue(MetricsData(r), KeywordKeys, "keywords", "keywords_count"))
       \/ IntRaises(OrganicValue(MetricsData(r), TrafficKeys, "traffic", "traffic_count"))

\* the three metrics of the metrics step set to 0
ZeroedMetrics(m) ==
    Put(Put(Put(m, "organic_keywords", JInt(0)), "organic_traffic", JInt(0)),
        "ref_domains", JInt(0))

MetricsStep(m, errs, out) ==
    IF out.exc # ""
    THEN [metrics |-> Put(Put(Put(m, "organic_keywords", JInt(0)),
                              "organic_traffic", JInt(0)), "ref_domains", JInt(0)),
          errors |-> Append(errs, ErrorText("Metrics endpoint", out))]
    ELSE IF MetricsRaises(out.json)
    THEN [metrics |-> ZeroedMetrics(Put(Put(m, "_raw_metrics_response", out.json),
                                        "_extracted_data", JDict(MetricsData(out.json)))),
          errors |-> Append(errs, ErrorText("Metrics endpoint", ConversionRaised))]
    ELSE LET r == out.json
         IN  IF IsDict(r)
             THEN LET data == MetricsData(r)
                      m1 == Put(Put(m, "_raw_metrics_response", r),
                                "_extracted_data", JDict(data))
                      kw == OrganicValue(data, KeywordKeys, "keywords", "keywords_count")
                      tr == OrganicValue(data, TrafficKeys, "traffic", "traffic_count")
                  IN  [metrics |->
                          Put(Put(Put(m1, "organic_keywords", JInt(OrganicInt(kw))),
                                  "organic_traffic", JInt(OrganicInt(tr))),
                              "ref_domains", JInt(0)),
                       errors |-> errs]
             ELSE [metrics |-> Put(Put(Put(m, "organic_keywords", JInt(0)),
                                       "organic_traffic", JInt(0)), "ref_domains", JInt(0)),
                   errors |-> errs]

\* 3. Backlinks stats -------------------------------------------------------

\* priority 1: response["metrics"]
RefDomsInMetrics(resp) ==
    IF Has(resp.d, "metrics") /\ IsDict(resp.d["metrics"])
    THEN LET md == resp.d["metrics"].d
         IN  IF Has(md, "live_refdomains") THEN md["live_refdomains"]
             ELSE IF Has(md, "refdomains") THEN md["refdomains"]
             ELSE IF Has(md, "referring_domains") THEN md["referring_domains"]
             ELSE IF Has(md, "ref_domains") THEN md["ref_domains"]
             ELSE Null
    ELSE Null

\* priority 2: response["backlinks_stats"] or response["data"]
RefDomsNested(resp) ==
    LET data == PyOr(Get(resp.d, "backlinks_stats"), Get(resp.d, "data"))
    IN  IF IsDict(data)
        THEN IF Has(data.d, "metrics") /\ IsDict(data.d["metrics"])
             THEN LET md == data.d["metrics"].d
                  IN  IF Has(md, "live_refdomains") THEN md["live_refdomains"]
                      ELSE IF Has(md, "refdomains") THEN md["refdomains"]
                      ELSE Null
             ELSE IF Has(data.d, "live_refdomains") THEN data.d["live_refdomains"]
             ELSE IF Has(data.d, "refdomains") THEN data.d["refdomains"]
             ELSE Null
        ELSE Null

\* priority 3: the response itself
RefDomsTopLevel(resp) ==
    IF Has(resp.d, "live_refdomains") THEN resp.d["live_refdomains"]
    ELSE IF Has(resp.d, "refdomains") THEN resp.d["refdomains"]
    ELSE Null

RefDoms(resp) ==
    LET p1 == RefDomsInMetrics(resp)
        p2 == IF p1.k = "null" THEN RefDomsNested(resp) ELSE p1
    IN  IF p2.k = "null" THEN RefDomsTopLevel(resp) ELSE p2

BacklinksCount(resp) ==
    LET inMetrics ==
            IF Has(resp.d, "metrics") /\ IsDict(resp.d["metrics"])
            THEN LET md == resp.d["metrics"].d
                 IN  IF Has(md, "live") THEN md["live"]
                     ELSE IF Has(md, "backlinks") THEN md["backlinks"]
                     ELSE Null
            ELSE Null
    IN  IF inMetrics.k = "null"
        THEN PyOr(PyOr(Get(resp.d, "backlinks"), Get(resp.d, "backlinks_count")), JInt(0))
        ELSE inMetrics

\* mutant: the metrics collected so far are dropped
WithRefDomainsOnly(m) == Put(EmptyDict, "ref_domains", JInt(0))

\* if "ref_domains" not in metrics: metrics["ref_domains"] = 0
WithRefDomains(m) == IF Has(m, "ref_domains") THEN m ELSE Put(m, "ref_domains", JInt(0))

\* the metrics once the referring domains of a dict answer are stored
RefDomainsStored(m, ref_doms) ==
    IF ref_doms.k # "null"
    THEN Put(Put(Put(Put(m, "ref_domains", JInt(ClientSafeInt(ref_doms))),
                     "_extracted_ref_domains", ref_doms),
                 "_extracted_ref_domains_int", JInt(ClientSafeInt(ref_doms))),
             "_extracted_ref_domains_source", JText(<<"backlinks-stats">>))
    ELSE WithRefDomains(m)

BacklinksStep(m, errs, out) ==
    IF out.exc # ""
    THEN [metrics |-> WithRefDomains(m),
          errors |-> Append(errs, ErrorText("Backlinks Stats", out))]
    ELSE IF IsDict(out.json) /\ IntRaises(RefDoms(out.json))
    THEN [metrics |-> WithRefDomains(Put(m, "_raw_backlinks_response", out.json)),
          errors |-> Append(errs, ErrorText("Backlinks Stats", ConversionRaised))]
    ELSE IF IsDict(out.json) /\ IntRaises(BacklinksCount(out.json))
    THEN [metrics |-> RefDomainsStored(Put(m, "_raw_backlinks_response", out.json),
                                       RefDoms(out.json)),
          errors |-> Append(errs, ErrorText("Backlinks Stats", ConversionRaised))]
    ELSE LET r == out.json
             m1 == Put(m, "_raw_backlinks_response", r)
         IN  IF IsDict(r)
             THEN LET m2 == RefDomainsStored(m1, RefDoms(r))
                      count == BacklinksCount(r)
                  IN  [metrics |->
                          IF Truthy(count) /\ ClientSafeInt(count) > 0
                          THEN Put(m2, "backlinks", JInt(ClientSafeInt(count)))
                          ELSE m2,
                       errors |-> errs]
             ELSE [metrics |-> m1, errors |-> errs]

\* the list `errors` as a JSON list
RECURSIVE ListItems(_, _)
ListItems(items, i) ==
    IF i > Len(items) THEN EmptyDict
    ELSE Put(ListItems(items, i + 1), DigitChars[i], items[i])

\* mutant: the paid defaults are not set
OverviewResultWithoutPaid(m, errs) ==
    IF errs # <<>> THEN Put(m, "_errors", JListOf(ListItems(errs, 1))) ELSE m

\* the dict overview returns
OverviewResult(m, errs) ==
    LET m1 == Put(Put(m, "paid_keywords", JInt(0)), "paid_traffic", JInt(0))
    IN  IF errs # <<>> THEN Put(m1, "_errors", JListOf(ListItems(errs, 1))) ELSE m1

\* overview(target, country), the vendor answering its three requests with answers
overview(t, country, answers) ==
    LET s1 == DomainRatingStep(EmptyDict, <<>>, _get(answers[1]))
        s2 == MetricsStep(s1.metrics, s1.errors, _get(answers[2]))
        s3 == BacklinksStep(s2.metrics, s2.errors, _get(answers[3]))
    IN  OverviewResult(s3.metrics, s3.errors)

-----------------------------------------------------------------------------
(* overview run step by step against generated answers.                    *)

ValueKinds == {"null", "int", "zero", "numstr", "str"}

KindValue(kind, i) ==
    CASE kind = "null" -> Null
      [] kind = "int" -> JInt(i)
      [] kind = "zero" -> JInt(0)
      [] kind = "numstr" -> JNumStr(i)
      [] kind = "str" -> JStr

\* the dicts with at most MaxMembers of the keys, each value of any kind and
\* carrying the position of its key
MemberDicts(keys) ==
    UNION {{[x \in S |-> KindValue(f[x], IndexOf(keys, x))] : f \in [S -> ValueKinds]} :
           S \in {T \in SUBSET SeqToSet(keys) : Cardinality(T) <= MaxMembers}}

\* data["organic"]: nested members, or no dict at all
OrganicMembers(member, memberCount) ==
    {JDict(Put(EmptyDict, member, JInt(41))),
     JDict(Put(Put(EmptyDict, member, JInt(0)), memberCount, JInt(42))),
     JDict(Put(EmptyDict, memberCount, JInt(42))),
     JDict(Put(EmptyDict, member, Null)),
     JDict(Put(EmptyDict, member, JInf)),
     JInt(43)}

\* the dicts the metrics endpoint may carry its values in
MetricsDataDicts(keys, member, memberCount) ==
    MemberDicts(keys) \cup
    {Put(EmptyDict, keys[1], JInf), Put(Put(EmptyDict, keys[1], Null), keys[2], JInf)} \cup
    {Put(d, "organic", o) : d \in {e \in MemberDicts(keys) : Cardinality(DOMAIN e) <= 1},
                             o \in OrganicMembers(member, memberCount)}

\* ... and the places of the response the dict may sit in
MetricsBodies(data) ==
    {JDict(data),
     JDict([metrics |-> JDict(data)]),
     JDict([data |-> JDict(data)]),
     JDict([metrics |-> Null, data |-> JDict(data)]),
     JDict([metrics |-> JListOf(Put(EmptyDict, "0", JDict(data)))])}

DomainRatingBodies ==
    LET inner == MemberDicts(<<"domain_rating", "dr", "value">>)
    IN  {JDict(d) : d \in inner}
        \cup {JDict([domain_rating |-> JDict(d)]) : d \in inner}
        \cup {JInt(78), JFloat(78), JStr, JList, Null, JInf, JDict([dr |-> JInf]),
              JDict([domain_rating |-> JInf])}

RefDomainKeys == <<"live_refdomains", "refdomains", "referring_domains", "ref_domains">>

BacklinksBodies ==
    LET inner == MemberDicts(RefDomainKeys)
    IN  {JDict(d) : d \in inner}
        \cup {JDict([metrics |-> JDict(d)]) : d \in inner}
        \cup {JDict([backlinks_stats |-> JDict(d)]) : d \in inner}
        \cup {JDict([data |-> JDict(d)]) : d \in inner}
        \cup {JDict([backlinks_stats |-> JDict([metrics |-> JDict(d)])]) : d \in inner}
        \cup {JDict([metrics |-> JDict([live |-> JInt(7)])]),
              JDict([backlinks |-> JInt(0), backlinks_count |-> JInt(8)]),
              JDict([metrics |-> JDict([live_refdomains |-> JInf])]),
              JDict([data |-> JDict([refdomains |-> JInf])]),
              JDict([backlinks |-> JInf]),
              JList, Null}

\* an endpoint that is not the one under study fails or answers plainly
PlainAnswers(body) == {NetError, JsonOk(body)}

FailingAnswers ==
    {NetError, HttpAnswer(500, TRUE, JDict([error |-> JText(<<"boom">>)])),
     HttpAnswer(404, FALSE, Null), HttpAnswer(200, FALSE, Null)}

PlainDR == JDict([domain_rating |-> JDict([domain_rating |-> JInt(64)])])

PlainMetrics == JDict([metrics |-> JDict([org_keywords |-> JInt(5100), org_traffic |-> JInt(61000)])])

PlainBacklinks == JDict([metrics |-> JDict([live_refdomains |-> JInt(9300), live |-> JInt(90000)])])

\* answers with status 200 whose conversion raises
InfDR == JDict([domain_rating |-> JDict([domain_rating |-> JInf])])

InfMetrics == JDict([metrics |-> JDict([org_keywords |-> JInt(5), org_traffic |-> JInf])])

InfBacklinks == JDict([metrics |-> JDict([live_refdomains |-> JInt(7), live |-> JInf])])

\* "www.gambling.com/au" and its like, shortened: a domain, with a trailing
\* slash, with a path, with a protocol
Targets ==
    {<<>>, <<"g", ".", "c", "o">>, <<"g", ".", "c", "o", "/">>,
     <<"g", ".", "c", "o", "/", "a", "u">>,
     <<"h", "t", "t", "p", "s", ":", "/", "/", "g", ".", "c", "o">>}

\* the country argument: left out, or a code of config.MONITORED_DOMAINS
Countries == {"None", "AU", "GB"}

DefaultTarget == <<"g", ".", "c", "o", "/", "a", "u">>

Scripts(f) ==
    CASE f = "dr" ->
            {<<JsonOk(b), m, l>> : b \in DomainRatingBodies,
                                   m \in PlainAnswers(PlainMetrics),
                                   l \in PlainAnswers(PlainBacklinks)}
      [] f = "keywords" ->
            {<<r, JsonOk(b), l>> :
                r \in PlainAnswers(PlainDR),
                b \in UNION {MetricsBodies(d) :
                                d \in MetricsDataDicts(KeywordKeys, "keywords",
                                                        "keywords_count")},
                l \in PlainAnswers(PlainBacklinks)}
      [] f = "traffic" ->
            {<<r, JsonOk(b), l>> :
                r \in PlainAnswers(PlainDR),
                b \in UNION {MetricsBodies(d) :
                                d \in MetricsDataDicts(TrafficKeys, "traffic",
                                                        "traffic_count")},
                l \in PlainAnswers(PlainBacklinks)}
      [] f = "backlinks" ->
            {<<r, m, JsonOk(b)>> : r \in PlainAnswers(PlainDR),
                                   m \in PlainAnswers(PlainMetrics),
                                   b \in BacklinksBodies}
      [] f = "target" ->
            {<<r, m, l>> : r \in FailingAnswers \cup {JsonOk(PlainDR), JsonOk(InfDR)},
                           m \in FailingAnswers \cup {JsonOk(PlainMetrics), JsonOk(InfMetrics)},
                           l \in FailingAnswers
                                    \cup {JsonOk(PlainBacklinks), JsonOk(InfBacklinks)}}

InitOverview ==
    /\ ExtractIdle
    /\ FormatIdle
    /\ StatsIdle
    /\ AppIdle
    /\ ofocus \in {"dr", "keywords", "traffic", "backlinks", "target"}
    /\ target \in (IF ofocus = "target" THEN Targets ELSE {DefaultTarget})
    /\ ocountry \in (IF ofocus = "target" THEN Countries ELSE {"AU"})
    /\ script \in Scripts(ofocus)
    /\ requests = <<>>
    /\ outcome = NoResult
    /\ ometrics = EmptyDict
    /\ oerrors = <<>>
    /\ cpc = "dr"

\* 1. the domain-rating request and what is made of its answer
OverviewDomainRating ==
    /\ cpc = "dr"
    /\ LET out == _get(script[Len(requests) + 1])
           st == DomainRatingStep(ometrics, oerrors, out)
       IN  /\ outcome' = out
           /\ ometrics' = st.metrics
           /\ oerrors' = st.errors
    /\ requests' = Append(requests, [path |-> "site-explorer/domain-rating",
                                      params |-> dr_params(target)])
    /\ cpc' = "metrics"
    /\ UNCHANGED <<target, ocountry, script, ofocus, extractVars, formatVars, statsVars, appVars>>

\* 2. the metrics request
OverviewMetrics ==
    /\ cpc = "metrics"
    /\ LET out == _get(script[Len(requests) + 1])
           st == MetricsStep(ometrics, oerrors, out)
       IN  /\ outcome' = out
           /\ ometrics' = st.metrics
           /\ oerrors' = st.errors
    /\ requests' = Append(requests, [path |-> "site-explorer/metrics",
                                      params |-> WithoutCountry(metrics_params(target))])
    /\ cpc' = "backlinks"
    /\ UNCHANGED <<target, ocountry, script, ofocus, extractVars, formatVars, statsVars, appVars>>

\* 3. the backlinks-stats request
OverviewBacklinks ==
    /\ cpc = "backlinks"
    /\ LET out == _get(script[Len(requests) + 1])
           st == BacklinksStep(ometrics, oerrors, out)
       IN  /\ outcome' = out
           /\ ometrics' = st.metrics
           /\ oerrors' = st.errors
    /\ requests' = Append(requests, [path |-> "site-explorer/backlinks-stats",
                                      params |-> WithoutCountry(backlinks_params(target))])
    /\ cpc' = "return"
    /\ UNCHANGED <<target, ocountry, script, ofocus, extractVars, formatVars, statsVars, appVars>>

\* the paid defaults, `_errors`, and the return
OverviewReturn ==
    /\ cpc = "return"
    /\ ometrics' = OverviewResult(ometrics, oerrors)
    /\ cpc' = "done"
    /\ UNCHANGED <<target, ocountry, script, requests, outcome, oerrors, ofocus,
                   extractVars, formatVars, statsVars, appVars>>

NextOverview ==
    OverviewDomainRating \/ OverviewMetrics \/ OverviewBacklinks \/ OverviewReturn

SpecOverview == InitOverview /\ [][NextOverview]_vars

\* the container C10 names: the `metrics` member, else the `data` member, else
\* the response itself
C10_Container(resp) ==
    IF Has(resp.d, "metrics") /\ resp.d["metrics"] # Null THEN resp.d["metrics"]
    ELSE IF Has(resp.d, "data") /\ resp.d["data"] # Null THEN resp.d["data"]
    ELSE resp

\* what C10 states of one metric of the result
C10_Expected(result, data, keys, member, memberCount) ==
    LET i == FirstPosition(data, keys, NonNull)
    IN  IF i # 0 THEN result = IntegerValue(data[keys[i]])
        ELSE IF Has(data, "organic") /\ IsDict(data["organic"])
             THEN result \in {IntegerValue(Get(data["organic"].d, member)),
                              IntegerValue(Get(data["organic"].d, memberCount))}
             ELSE result = 0

\* C10 as stated: organic_keywords is the integer value of the first key of the
\* keyword key list whose value in the metrics container is non-null, else the
\* nested organic.keywords / organic.keywords_count, else 0; organic_traffic
\* likewise from its own key list.
C10_FirstNonNullInContainer ==
    (cpc = "done" /\ ofocus \in {"keywords", "traffic"}
        /\ IsDict(C10_Container(script[2].body))) =>
        LET data == C10_Container(script[2].body).d
        IN  /\ C10_Expected(ometrics["organic_keywords"].n, data, KeywordKeys,
                            "keywords", "keywords_count")
            /\ C10_Expected(ometrics["organic_traffic"].n, data, TrafficKeys,
                            "traffic", "traffic_count")

\* the keys of the result that carry a metric
ResultKeys ==
    {"domain_rating", "organic_keywords", "organic_traffic", "ref_domains",
     "paid_keywords", "paid_traffic"}

\* C13: whatever the target and whatever the three endpoints answer (a body, an
\* HTTP error, a network exception, a body that is not JSON), overview returns a
\* dict holding an integer under domain_rating, organic_keywords, organic_traffic,
\* ref_domains, paid_keywords and paid_traffic, the two paid ones being 0.
C13_AlwaysSixIntegers ==
    cpc = "done" =>
        /\ \A key \in ResultKeys : Has(ometrics, key) /\ ometrics[key].k = "int"
        /\ Has(ometrics, "paid_keywords") /\ ometrics["paid_keywords"].n = 0
        /\ Has(ometrics, "paid_traffic") /\ ometrics["paid_traffic"].n = 0

\* all three endpoints failed, each in another way, and overview returned
C13_Witness ==
    /\ cpc = "done"
    /\ script[1].net
    /\ ~script[2].net /\ script[2].status = 500
    /\ ~script[3].net /\ script[3].status = 200 /\ ~script[3].isJson
    /\ \A key \in ResultKeys : Has(ometrics, key) /\ ometrics[key].n = 0

\* the endpoints in the order of their requests, and the names their errors carry
EndpointPaths ==
    <<"site-explorer/domain-rating", "site-explorer/metrics",
      "site-explorer/backlinks-stats">>

EndpointNames == <<"Domain Rating", "Metrics endpoint", "Backlinks Stats">>

\* the requests of the run that raised
FailedRequests == {i \in 1..3 : _get(script[i]).exc # ""}

\* C14 as stated: one overview call requests the three endpoints once each, in the
\* order domain-rating, metrics, backlinks-stats, whatever failed before; and the
\* result holds '_errors' exactly when at least one request raised, with one entry
\* per failed endpoint, in request order.
C14_ErrorsIffRequestRaised ==
    cpc = "done" =>
        /\ [i \in DOMAIN requests |-> requests[i].path] = EndpointPaths
        /\ Has(ometrics, "_errors") <=> FailedRequests # {}
        /\ Has(ometrics, "_errors") =>
               /\ Cardinality(DOMAIN ometrics["_errors"].d) = Cardinality(FailedRequests)
               /\ \A i \in FailedRequests :
                      ometrics["_errors"].d[
                          DigitChars[Cardinality({j \in FailedRequests : j <= i})]].s[1]
                          = EndpointNames[i]

\* C15: whatever country is passed, no request carries a 'country' parameter, and
\* all requests of the call carry the same target, normalized to end in '/', and
\* the same date.
C15_NoCountrySameTarget ==
    cpc \in {"metrics", "backlinks", "return", "done"} =>
        \A i \in DOMAIN requests :
            /\ ~Has(requests[i].params, "country")
            /\ requests[i].params.target = target \o (IF target # <<>> /\ target[Len(target)] = "/"
                                                      THEN <<>> ELSE <<"/">>)
            /\ requests[i].params.target[Len(requests[i].params.target)] = "/"
            /\ requests[i].params.date = requests[1].params.date

\* a call with a country and a target lacking the slash, all three requests sent
C15_Witness ==
    /\ cpc = "done"
    /\ ocountry = "AU"
    /\ target # <<>> /\ target[Len(target)] # "/"
    /\ Len(requests) = 3

\* the target without a leading protocol ("https://")
WithoutProtocol(t) ==
    LET marks == {i \in 1..(Len(t) - 2) : SubSeq(t, i, i + 2) = <<":", "/", "/">>}
    IN  IF marks = {} THEN t
        ELSE SubSeq(t, (CHOOSE i \in marks : \A j \in marks : i <= j) + 3, Len(t))

\* the target names a path below the domain
HasPath(t) ==
    LET host == WithoutProtocol(t)
        bare == IF host # <<>> /\ host[Len(host)] = "/"
                THEN SubSeq(host, 1, Len(host) - 1) ELSE host
    IN  CountChar(bare, "/") > 0

\* C16 as stated: the metrics and the backlinks-stats requests carry mode 'prefix'
\* when the target contains a path and 'subdomains' when it is just a domain, with
\* or without trailing slash and protocol; both carry the same mode.
C16_ModeFollowsPath ==
    cpc = "done" =>
        /\ requests[2].params.mode = requests[3].params.mode
        /\ requests[2].params.mode = (IF HasPath(target) THEN "prefix" ELSE "subdomains")

\* v[key] when v is a dict holding the key, else None
Member(v, key) == IF IsDict(v) THEN Get(v.d, key) ELSE Null

\* the locations C17 names, in its priority order
RefDomainLocations(resp) ==
    LET inner == Member(resp, "metrics")
        stats == Member(resp, "backlinks_stats")
        box == IF stats # Null THEN stats ELSE Member(resp, "data")
    IN  <<Member(inner, "live_refdomains"), Member(inner, "refdomains"),
          Member(inner, "referring_domains"), Member(inner, "ref_domains"),
          Member(Member(box, "metrics"), "live_refdomains"),
          Member(Member(box, "metrics"), "refdomains"),
          Member(box, "live_refdomains"), Member(box, "refdomains"),
          Member(resp, "live_refdomains"), Member(resp, "refdomains")>>

\* the first value of a sequence that is not None, else None
RECURSIVE FirstNonNullOf(_)
FirstNonNullOf(values) ==
    IF values = <<>> THEN Null
    ELSE IF Head(values) # Null THEN Head(values)
    ELSE FirstNonNullOf(Tail(values))

\* the backlinks-stats endpoint answered with a dict
BacklinksAnsweredDict ==
    /\ ~script[3].net /\ script[3].status = 200 /\ script[3].isJson
    /\ IsDict(script[3].body)

\* C17 as stated: when backlinks-stats answers with a dict, ref_domains is taken from
\* the first location, in the priority order, that holds a non-null value; a value
\* at a lower-priority location is used whenever all higher ones are absent or null.
C17_FirstNonNullLocation ==
    (cpc = "done" /\ BacklinksAnsweredDict) =>
        ometrics["ref_domains"].n
            = IntegerValue(FirstNonNullOf(RefDomainLocations(script[3].body)))

\* `metrics` as it was after the metrics step of the run
AfterMetricsStep ==
    MetricsStep(DomainRatingStep(EmptyDict, <<>>, _get(script[1])).metrics, <<>>,
                _get(script[2])).metrics

\* the backlinks-stats request succeeded and yielded a referring-domains value
BacklinksYielded ==
    /\ _get(script[3]).exc = ""
    /\ IsDict(script[3].body)
    /\ RefDoms(script[3].body) # Null

-----------------------------------------------------------------------------
(* Strings of the configuration and of the monitored domains: sequences of *)
(* characters.                                                             *)

UpperChars ==
    <<"A", "B", "C", "D", "E", "F", "G", "H", "I", "J", "K", "L", "M",
      "N", "O", "P", "Q", "R", "S", "T", "U", "V", "W", "X", "Y", "Z">>

LowerChars ==
    <<"a", "b", "c", "d", "e", "f", "g", "h", "i", "j", "k", "l", "m",
      "n", "o", "p", "q", "r", "s", "t", "u", "v", "w", "x", "y", "z">>

LowerChar(c) ==
    IF \E i \in DOMAIN UpperChars : UpperChars[i] = c
    THEN LowerChars[CHOOSE i \in DOMAIN UpperChars : UpperChars[i] = c]
    ELSE c

\* str.lower()
Lower(str) == [i \in DOMAIN str |-> LowerChar(str[i])]

IsSpace(c) == c \in {" ", "\t", "\n"}

\* str.strip()
RECURSIVE LStrip(_)
LStrip(str) == IF str # <<>> /\ IsSpace(Head(str)) THEN LStrip(Tail(str)) ELSE str

RECURSIVE RStrip(_)
RStrip(str) ==
    IF str # <<>> /\ IsSpace(str[Len(str)]) THEN RStrip(SubSeq(str, 1, Len(str) - 1))
    ELSE str

Strip(str) == RStrip(LStrip(str))

\* sub in str
Contains(str, sub) ==
    \E i \in 0..(Len(str) - Len(sub)) : SubSeq(str, i + 1, i + Len(sub)) = sub

-----------------------------------------------------------------------------
(* mock_data.py                                                            *)

\* a percentage: the fraction num / den
Pct(num, den) == [isNone |-> FALSE, num |-> num, den |-> den]

PctNone == [isNone |-> TRUE, num |-> 0, den |-> 1]

Metric(value, change_pct, change, previous_value, sparkline) ==
    [value |-> value, change_pct |-> change_pct, change_value |-> change,
     previous_value |-> previous_value, sparkline |-> sparkline]

\* the five metrics in the order organic_keywords, organic_traffic, paid_keywords,
\* paid_traffic, ref_domains
DomainStats(domain, country, ok, ot, pk, pt, rd, authority_score) ==
    [domain |-> domain, country |-> country, organic_keywords |-> ok,
     organic_traffic |-> ot, paid_keywords |-> pk, paid_traffic |-> pt,
     ref_domains |-> rd, authority_score |-> authority_score]

GamblingCom == <<"g", "a", "m", "b", "l", "i", "n", "g", ".", "c", "o", "m">>

mock_domain_stats(domain, country, period) ==
    IF domain = GamblingCom /\ country = "AU"
    THEN DomainStats(domain, country,
            Metric(6400, Pct(-358, 100), PyNum(-230), PyNum(6630),
                   <<6500, 6480, 6460, 6450, 6420, 6410, 6400>>),
            Metric(3200, Pct(1979, 100), PyNum(530), PyNum(2670),
                   <<2600, 2700, 2800, 2950, 3100, 3150, 3200>>),
            Metric(0, Pct(0, 1), PyNum(0), PyNone, <<>>),
            Metric(0, Pct(0, 1), PyNum(0), PyNone, <<>>),
            Metric(41000, Pct(565, 100), PyNum(2317), PyNum(38683),
                   <<38800, 39200, 39900, 40500, 40800, 41000, 41050>>),
            52)
    ELSE IF Contains(Lower(domain), <<"u", "k">>) \/ country = "GB"
    THEN DomainStats(domain, country,
            Metric(7726, Pct(-795, 100), PyNum(-667), PyNum(8393),
                   <<8400, 8300, 8100, 8000, 7800, 7750, 7726>>),
            Metric(82296, Pct(-327, 10), PyNum(-40000), PyNum(122296),
                   <<122000, 115000, 105000, 95000, 88000, 85000, 82296>>),
            Metric(2, Pct(0, 1), PyNum(2), PyNone, <<>>),
            Metric(2, Pct(0, 1), PyNum(2), PyNone, <<>>),
            Metric(14022, Pct(225, 100), PyNum(309), PyNum(13713),
                   <<13713, 13750, 13800, 13850, 13900, 13950, 14022>>),
            78)
    ELSE DomainStats(domain, country,
            Metric(2600, Pct(-19, 100), PyNum(-5), PyNum(2605),
                   <<2700, 2680, 2660, 2650, 2630, 2610, 2600>>),
            Metric(33000, Pct(1516, 100), PyNum(4344), PyNum(28656),
                   <<28500, 29000, 30000, 31500, 32000, 32500, 33000>>),
            Metric(0, Pct(0, 1), PyNum(0), PyNone, <<>>),
            Metric(0, Pct(0, 1), PyNum(0), PyNone, <<>>),
            Metric(41000, Pct(565, 100), PyNum(2317), PyNum(38683),
                   <<39500, 39800, 40000, 40200, 40500, 40800, 41000>>),
            52)

-----------------------------------------------------------------------------
(* stats_service.py: get_domain_stats.                                     *)

\* the parameters AhrefsClient.overview takes besides self
OverviewParameters == {"target", "country"}

\* client.overview(**kwargs), the vendor answering with answers: a keyword the
\* function does not take is a TypeError, raised before any request is sent
CallOverview(kwargs, answers) ==
    IF DOMAIN kwargs \subseteq OverviewParameters
    THEN [exc |-> "", value |-> overview(kwargs.target, kwargs.country, answers),
          requests |-> 3]
    ELSE [exc |-> "TypeError", value |-> EmptyDict, requests |-> 0]

\* config.py: CHANGES_OPTIONS.get(option)
CHANGES_OPTIONS(option) ==
    CASE option = "Don't show" -> PyNone
      [] option = "Last 24 hours" -> PyNum(1)
      [] option = "Last 7 days" -> PyNum(7)
      [] option = "Last month" -> PyNum(30)
      [] option = "Last 3 months" -> PyNum(90)
      [] option = "Last 6 months" -> PyNum(180)
      [] option = "Last year" -> PyNum(365)
      [] option = "Last 2 years" -> PyNum(730)
      [] option = "Last 5 years" -> PyNum(1825)
      [] OTHER -> PyNone

CHANGES_OPTIONS_LIST ==
    <<"Don't show", "Last 24 hours", "Last 7 days", "Last month", "Last 3 months",
      "Last 6 months", "Last year", "Last 2 years", "Last 5 years">>

\* changes_period=None is written "None"
NoChangesPeriod == "None"

\* the date of the current data, then of the previous period
CurrentDate(changes_period) ==
    IF changes_period = "Last month" THEN [base |-> "today", back |-> "0 days"]
    ELSE [base |-> "yesterday", back |-> "0 days"]

PreviousDate(changes_period) ==
    IF changes_period = "Last month" THEN [base |-> "today", back |-> "1 month"]
    ELSE [base |-> "yesterday", back |-> changes_period]

\* mutant: six points whatever the period
_flat_trend_six(value, points) == [i \in 1..6 |-> value]

_flat_trend(value, points) == [i \in 1..(IF points > 1 THEN points ELSE 1) |-> value]

calc_pct_change(current, previous) ==
    IF previous = 0 THEN (IF current = 0 THEN Pct(0, 1) ELSE Pct(100, 1))
    ELSE Pct((current - previous) * 100, previous)

\* the metrics a change is computed for
ChangeMetrics ==
    {"organic_keywords", "organic_traffic", "paid_keywords", "paid_traffic", "ref_domains"}

StatsReturned(stats, issued) == [exc |-> "", stats |-> stats, requests |-> issued]

StatsRaised(exc, issued) == [exc |-> exc, stats |-> NoResult, requests |-> issued]

\* one Metric of the result; have: the previous-period metrics were fetched
MetricOf(metrics, have, prev_metrics, m, sparkline) ==
    Metric(metrics[m],
           IF have THEN calc_pct_change(metrics[m], prev_metrics[m]) ELSE PctNone,
           IF have THEN PyNum(metrics[m] - prev_metrics[m]) ELSE PyNone,
           IF have THEN PyNum(prev_metrics[m]) ELSE PyNone,
           sparkline)

\* trend_points and the DomainStats returned
BuildStats(domain, country, period, metrics, have, prev_metrics) ==
    LET trend_points == IF period = "month" THEN 6 ELSE 12
    IN  DomainStats(domain, country,
            MetricOf(metrics, have, prev_metrics, "organic_keywords",
                     _flat_trend(metrics["organic_keywords"], trend_points)),
            MetricOf(metrics, have, prev_metrics, "organic_traffic",
                     _flat_trend(metrics["organic_traffic"], trend_points)),
            MetricOf(metrics, have, prev_metrics, "paid_keywords", <<>>),
            MetricOf(metrics, have, prev_metrics, "paid_traffic", <<>>),
            MetricOf(metrics, have, prev_metrics, "ref_domains",
                     _flat_trend(metrics["ref_domains"], trend_points)),
            metrics["authority_score"])

\* overview_raw: the dict handed in, or client.overview(..., date=current_date)
CurrentOverview(domain, country, overview_data, changes_period, vendor) ==
    IF ~overview_data.isNone
    THEN [exc |-> "", value |-> overview_data.v, requests |-> 0]
    ELSE CallOverview([target |-> domain, country |-> country,
                       date |-> CurrentDate(changes_period)], vendor.cur)

\* a previous period is asked for
PreviousWanted(changes_period) ==
    /\ changes_period # NoChangesPeriod
    /\ changes_period # "Don't show"
    /\ ~CHANGES_OPTIONS(changes_period).isNone

\* prev_overview: client.overview(..., date=prev_date_str) when a previous period is
\* asked for
PreviousOverview(domain, country, changes_period, vendor) ==
    IF PreviousWanted(changes_period)
    THEN CallOverview([target |-> domain, country |-> country,
                       date |-> PreviousDate(changes_period)], vendor.prev)
    ELSE [exc |-> "", value |-> EmptyDict, requests |-> 0]

\* the part after the previous-period block.  An exception in that block is
\* swallowed (except Exception: pass) and the changes stay None.  (A previous
\* overview that returns is also stored under overview_raw["_debug_info"]; the
\* returned DomainStats does not depend on it.)
AfterPrevious(domain, country, period, changes_period, metrics, issued, prev) ==
    StatsReturned(
        BuildStats(domain, country, period, metrics,
                   PreviousWanted(changes_period) /\ prev.exc = "",
                   _extract_metrics_from_overview(prev.value)),
        issued + prev.requests)

\* the part after overview_raw was obtained
AfterCurrent(domain, country, period, changes_period, vendor, cur) ==
    IF cur.exc # "" THEN StatsRaised(cur.exc, cur.requests)
    ELSE AfterPrevious(domain, country, period, changes_period,
                       _extract_metrics_from_overview(cur.value), cur.requests,
                       PreviousOverview(domain, country, changes_period, vendor))

get_domain_stats(domain, country, period, overview_data, changes_period, vendor) ==
    AfterCurrent(domain, country, period, changes_period, vendor,
                 CurrentOverview(domain, country, overview_data, changes_period, vendor))

-----------------------------------------------------------------------------
(* get_domain_stats applied to generated arguments.                        *)

UkPath == <<"w", "w", "w", ".", "g", "a", "m", "b", "l", "i", "n", "g", ".", "c", "o", "m", "/", "u", "k">>

UsPath == <<"w", "w", "w", ".", "g", "a", "m", "b", "l", "i", "n", "g", ".", "c", "o", "m", "/", "u", "s">>

\* (domain, country) pairs: the fixture key of mock_data.py and two monitored paths
MonitoredPairs ==
    {[domain |-> GamblingCom, country |-> "AU"], [domain |-> UkPath, country |-> "GB"],
     [domain |-> UsPath, country |-> "US"]}

AllOk == <<JsonOk(PlainDR), JsonOk(PlainMetrics), JsonOk(PlainBacklinks)>>

\* the previous period: other numbers
EarlierOk ==
    <<JsonOk(JDict([domain_rating |-> JInt(63)])),
      JsonOk(JDict([metrics |-> JDict([org_keywords |-> JInt(5767),
                                       org_traffic |-> JInt(60500)])])),
      JsonOk(JDict([metrics |-> JDict([live_refdomains |-> JInt(9000)])]))>>

AllFailing == <<NetError, HttpAnswer(500, FALSE, Null), HttpAnswer(429, FALSE, Null)>>

\* what the vendor would answer to the requests for the current and the previous date
VendorCases ==
    {[cur |-> c, prev |-> q] : c \in {AllOk, AllFailing}, q \in {EarlierOk, AllFailing}}

\* overview_data: None, or a dict fetched before
GivenOverview(d) == [isNone |-> FALSE, v |-> d]

NoOverview == [isNone |-> TRUE, v |-> EmptyDict]

OverviewData ==
    {NoOverview, GivenOverview(overview(UkPath, "GB", AllOk)),
     GivenOverview(overview(UkPath, "GB", AllFailing)),
     GivenOverview([organic_keywords |-> JInt(12), organic_traffic |-> JNumStr(34),
            ref_domains |-> Null, dr |-> JInt(5)])}

\* PERIOD_OPTIONS of the dashboard and one string outside them
Periods == {"month", "year", "week"}

InitStats ==
    /\ ExtractIdle
    /\ FormatIdle
    /\ ClientIdle
    /\ AppIdle
    /\ sargs \in [pair : MonitoredPairs, period : Periods,
                   overview_data : OverviewData,
                   changes_period : SeqToSet(CHANGES_OPTIONS_LIST) \cup {NoChangesPeriod},
                   vendor : VendorCases]
    /\ sresult = NoResult
    /\ spc = "call"

GetDomainStats ==
    /\ spc = "call"
    /\ sresult' = get_domain_stats(sargs.pair.domain, sargs.pair.country, sargs.period,
                                   sargs.overview_data, sargs.changes_period, sargs.vendor)
    /\ spc' = "done"
    /\ UNCHANGED <<sargs, extractVars, formatVars, clientVars, appVars>>

NextStats == GetDomainStats

SpecStats == InitStats /\ [][NextStats]_vars

\* C8 as stated: with a client whose endpoints answer successfully and a
\* changes_period other than None and "Don't show", get_domain_stats returns, for
\* each metric, previous_value = the previous-period value and change_value =
\* current value - previous value, both non-None.
C8_PreviousPeriodCompared ==
    (spc = "done" /\ sargs.vendor = [cur |-> AllOk, prev |-> EarlierOk]
        /\ sargs.changes_period \notin {NoChangesPeriod, "Don't show"}) =>
        /\ sresult.exc = ""
        /\ LET earlier == _extract_metrics_from_overview(
                               overview(sargs.pair.domain, sargs.pair.country, EarlierOk))
           IN  \A m \in ChangeMetrics :
                   /\ ~sresult.stats[m].previous_value.isNone
                   /\ ~sresult.stats[m].change_value.isNone
                   /\ sresult.stats[m].previous_value.v = earlier[m]
                   /\ sresult.stats[m].change_value.v = sresult.stats[m].value - earlier[m]

\* the metrics drawn with a sparkline
TrendMetrics == {"organic_keywords", "organic_traffic", "ref_domains"}

\* C19: every DomainStats returned by get_domain_stats carries, for organic_keywords,
\* organic_traffic and ref_domains, a sparkline of exactly 6 points when period is
\* "month" and of exactly 12 points for any other period, every point equal to the
\* metric's current value; paid_keywords and paid_traffic carry an empty sparkline.
C19_FlatSparklines ==
    (spc = "done" /\ sresult.exc = "") =>
        /\ \A m \in TrendMetrics :
               /\ Len(sresult.stats[m].sparkline)
                      = (IF sargs.period = "month" THEN 6 ELSE 12)
               /\ \A i \in 1..Len(sresult.stats[m].sparkline) :
                      sresult.stats[m].sparkline[i] = sresult.stats[m].value
        /\ sresult.stats["paid_keywords"].sparkline = <<>>
        /\ sresult.stats["paid_traffic"].sparkline = <<>>

\* a period other than "month" with non-zero values in the overview passed in
C19_Witness ==
    /\ spc = "done"
    /\ sresult.exc = ""
    /\ sargs.period = "week"
    /\ ~sargs.overview_data.isNone
    /\ sresult.stats["organic_traffic"].value # 0
    /\ Len(sresult.stats["organic_traffic"].sparkline) = 12
    /\ sresult.stats["ref_domains"].value # 0

-----------------------------------------------------------------------------
(* app.py and config.py: the token, the mode and the client constructor.   *)

TrueText == <<"t", "r", "u", "e">>

NotRealTexts == {<<"f", "a", "l", "s", "e">>, <<"0">>, <<"n", "o">>}

\* os.getenv(key, default)
getenv(environment, key, default) ==
    IF key \in DOMAIN environment THEN environment[key] ELSE default

\* key in st.secrets; reading secrets that are not available raises, and the
\* callers catch it
InSecrets(sec, key) == sec.available /\ key \in DOMAIN sec.d

\* a or b on strings
StrOr(a, b) == IF a # <<>> THEN a ELSE b

get_ahrefs_token(sec, environment) ==
    LET token == IF InSecrets(sec, "AHREFS_API_TOKEN")
                 THEN Strip(sec.d["AHREFS_API_TOKEN"])
                 ELSE IF InSecrets(sec, "A_HREFS_API_TOKEN")
                 THEN Strip(sec.d["A_HREFS_API_TOKEN"])
                 ELSE <<>>
    IN  IF token = <<>>
        THEN StrOr(Strip(getenv(environment, "AHREFS_API_TOKEN", <<>>)),
                   Strip(getenv(environment, "A_HREFS_API_TOKEN", <<>>)))
        ELSE token

\* config.py
_get_config(sec, environment, key, default) ==
    IF InSecrets(sec, key) /\ sec.d[key] # <<>> THEN sec.d[key]
    ELSE getenv(environment, key, default)

ConfigToken(sec, environment) ==
    StrOr(_get_config(sec, environment, "AHREFS_API_TOKEN", <<>>),
          _get_config(sec, environment, "A_HREFS_API_TOKEN", <<>>))

USE_MOCK_DATA_STR(sec, environment) ==
    LET fromSecrets == IF InSecrets(sec, "USE_MOCK_DATA")
                       THEN Strip(sec.d["USE_MOCK_DATA"]) ELSE TrueText
    IN  IF fromSecrets = TrueText THEN getenv(environment, "USE_MOCK_DATA", TrueText)
        ELSE fromSecrets

\* USE_MOCK_DATA_STR.lower() not in ("false", "0", "no")
MockRequested(str) == Lower(str) \notin NotRealTexts

\* the mode without the final test for a token
StartupModeUnguarded(requested, token) == requested

\* if not USE_MOCK_DATA and not AHREFS_TOKEN: USE_MOCK_DATA = True
StartupMode(requested, token) ==
    IF ~requested /\ token = <<>> THEN TRUE ELSE requested

KeyNotConfigured ==
    <<"A", "h", "r", "e", "f", "s", " ", "A", "P", "I", " ", "k", "e", "y", " ", "i",
      "s", " ", "n", "o", "t", " ", "c", "o", "n", "f", "i", "g", "u", "r", "e", "d",
      ".", " ", "S", "e", "t", " ", "A", "H", "R", "E", "F", "S", "_", "A", "P", "I",
      "_", "T", "O", "K", "E", "N", " ", "i", "n", " ", "y", "o", "u", "r", " ", "e",
      "n", "v", "i", "r", "o", "n", "m", "e", "n", "t", " ", "o", "r", " ", ".", "e",
      "n", "v", " ", "f", "i", "l", "e", ".">>

KeyNotConfiguredMark ==
    <<"A", "P", "I", " ", "k", "e", "y", " ", "i", "s", " ", "n", "o", "t", " ", "c",
      "o", "n", "f", "i", "g", "u", "r", "e", "d">>

\* AhrefsClient(api_key): api_key = <<>> stands for None
AhrefsClient(api_key, config_token) ==
    LET key == StrOr(api_key, config_token)
    IN  IF key = <<>> THEN [exc |-> "RuntimeError", msg |-> KeyNotConfigured, api_key |-> key]
        ELSE [exc |-> "", msg |-> <<>>, api_key |-> key]

-----------------------------------------------------------------------------
(* app.py: fetch_stats.  st.cache_data is taken as a miss on every call,   *)
(* so that each call runs the body.                                        *)

\* the classes an exception is an instance of
ClassesOf(exc) ==
    CASE exc = "RuntimeError" -> {"RuntimeError", "Exception"}
      [] exc = "RecursionError" -> {"RecursionError", "RuntimeError", "Exception"}
      [] exc = "HTTPError" -> {"HTTPError", "Exception"}
      [] OTHER -> {exc, "Exception"}

UnexpectedKeyword ==
    <<"o", "v", "e", "r", "v", "i", "e", "w", "(", ")", " ", "g", "o", "t", " ", "a",
      "n", " ", "u", "n", "e", "x", "p", "e", "c", "t", "e", "d", " ", "k", "e", "y",
      "w", "o", "r", "d", " ", "a", "r", "g", "u", "m", "e", "n", "t", " ", "'", "d",
      "a", "t", "e", "'">>

NoFault == [exc |-> "", msg |-> <<>>]

FetchReturned(stats, made, issued) ==
    [exc |-> "", stats |-> stats, clients |-> made, requests |-> issued]

FetchRaised(exc, made, issued) ==
    [exc |-> exc, stats |-> NoResult, clients |-> made, requests |-> issued]

TryRaised(exc, msg, made, issued) ==
    [exc |-> exc, msg |-> msg, stats |-> NoResult, clients |-> made, requests |-> issued]

\* the try block after overview_data was fetched: get_domain_stats and return
AfterOverview(issued, r) ==
    [exc |-> r.exc, msg |-> <<>>, stats |-> r.stats, clients |-> 1,
     requests |-> issued + r.requests]

\* the try block after the client was constructed
AfterClient(domain, country, period, changes_period, vendor, ov) ==
    IF ov.exc # "" THEN TryRaised(ov.exc, UnexpectedKeyword, 1, ov.requests)
    ELSE AfterOverview(ov.requests,
                       get_domain_stats(domain, country, period, GivenOverview(ov.value),
                                        changes_period, vendor))

\* the try block from the constructor on
FromClient(domain, country, period, changes_period, vendor, client) ==
    IF client.exc # "" THEN TryRaised(client.exc, client.msg, 0, 0)
    ELSE AfterClient(domain, country, period, changes_period, vendor,
                     CallOverview([target |-> domain, country |-> country,
                                   date |-> CurrentDate(changes_period)], vendor.cur))

\* the try block: fault is an exception the runtime raises while the client is
\* being constructed (NoFault: none)
TryBlock(domain, country, period, changes_period, vendor, fault, token, config_token) ==
    IF fault.exc # "" THEN TryRaised(fault.exc, fault.msg, 0, 0)
    ELSE FromClient(domain, country, period, changes_period, vendor,
                    AhrefsClient(token, config_token))

\* the except clauses, in their order
Handlers(body, mock) ==
    IF body.exc = "" THEN FetchReturned(body.stats, body.clients, body.requests)
    ELSE IF "RuntimeError" \in ClassesOf(body.exc)
    THEN IF Contains(body.msg, KeyNotConfiguredMark)
         THEN FetchReturned(mock, body.clients, body.requests)
         ELSE FetchRaised(body.exc, body.clients, body.requests)
    ELSE IF "HTTPError" \in ClassesOf(body.exc)
    THEN FetchReturned(mock, body.clients, body.requests)
    ELSE FetchReturned(mock, body.clients, body.requests)

fetch_stats(domain, country, period, changes_period, vendor, fault, use_mock, token, cfg) ==
    IF use_mock THEN FetchReturned(mock_domain_stats(domain, country, period), 0, 0)
    ELSE Handlers(TryBlock(domain, country, period, changes_period, vendor, fault, token,
                           cfg),
                  mock_domain_stats(domain, country, period))

-----------------------------------------------------------------------------
(* The page: start-up, then fetch_stats calls.                             *)

\* marks a key that is not set
Absent == <<"<absent>">>

ConfigDict(choice) == [key \in {k \in DOMAIN choice : choice[k] # Absent} |-> choice[key]]

SecretsChoices ==
    [USE_MOCK_DATA : {Absent, <<"t", "r", "u", "e">>, <<"F", "a", "l", "s", "e", " ">>},
     AHREFS_API_TOKEN : {Absent, <<>>, <<"s", "k">>},
     A_HREFS_API_TOKEN : {Absent, <<"s", "2">>}]

EnvChoices ==
    [USE_MOCK_DATA : {Absent, <<"N", "O">>},
     AHREFS_API_TOKEN : {Absent, <<" ">>, <<"e", "k">>},
     A_HREFS_API_TOKEN : {Absent, <<"e", "2">>}]

SecretsStates ==
    {[available |-> FALSE, d |-> ConfigDict([USE_MOCK_DATA |-> Absent])]}
        \cup {[available |-> TRUE, d |-> ConfigDict(c)] : c \in SecretsChoices}

EnvStates == {ConfigDict(c) : c \in EnvChoices}

\* exceptions of the runtime: a RuntimeError subclass and an HTTPError
Faults ==
    {NoFault,
     [exc |-> "RecursionError", msg |-> <<"m", "a", "x", "i", "m", "u", "m", " ", "r", "e", "c", "u", "r", "s", "i", "o", "n", " ", "d", "e", "p", "t", "h", " ", "e", "x", "c", "e", "e", "d", "e", "d">>],
     [exc |-> "HTTPError", msg |-> <<"5", "0", "2", " ", "S", "e", "r", "v", "e", "r", " ", "E", "r", "r", "o", "r">>]}

FetchCalls ==
    [pair : MonitoredPairs, period : {"month"},
     changes_period : {"Last month", "Don't show"},
     vendor : {"answering", "failing"},
     fault : Faults]

\* what the vendor answers during a call
VendorOf(name) ==
    IF name = "answering" THEN [cur |-> AllOk, prev |-> EarlierOk]
    ELSE [cur |-> AllFailing, prev |-> AllFailing]

InitApp ==
    /\ ExtractIdle
    /\ FormatIdle
    /\ ClientIdle
    /\ StatsIdle
    /\ secrets \in SecretsStates
    /\ env \in EnvStates
    /\ USE_MOCK_DATA = TRUE
    /\ AHREFS_TOKEN = <<>>
    /\ AHREFS_API_TOKEN = <<>>
    /\ acall = NoResult
    /\ aresult = NoResult
    /\ clients = 0
    /\ sent = 0
    /\ ncalls = 0
    /\ apc = "boot"

\* the module bodies of config.py and app.py
Startup ==
    /\ apc = "boot"
    /\ AHREFS_API_TOKEN' = ConfigToken(secrets, env)
    /\ AHREFS_TOKEN' = get_ahrefs_token(secrets, env)
    /\ USE_MOCK_DATA' = StartupMode(MockRequested(USE_MOCK_DATA_STR(secrets, env)),
                                    get_ahrefs_token(secrets, env))
    /\ apc' = "ready"
    /\ UNCHANGED <<secrets, env, acall, aresult, clients, sent, ncalls, extractVars,
                   formatVars, clientVars, statsVars>>

FetchStats ==
    /\ apc = "ready"
    /\ ncalls < MaxCalls
    /\ \E c \in FetchCalls :
          /\ acall' = c
          /\ aresult' = fetch_stats(c.pair.domain, c.pair.country, c.period,
                                    c.changes_period, VendorOf(c.vendor), c.fault,
                                    USE_MOCK_DATA, AHREFS_TOKEN, AHREFS_API_TOKEN)
    /\ clients' = clients + aresult'.clients
    /\ sent' = sent + aresult'.requests
    /\ ncalls' = ncalls + 1
    /\ UNCHANGED <<secrets, env, USE_MOCK_DATA, AHREFS_TOKEN, AHREFS_API_TOKEN, apc,
                   extractVars, formatVars, clientVars, statsVars>>

NextApp == Startup \/ FetchStats

SpecApp == InitApp /\ [][NextApp]_vars

\* the fixture fetch_stats falls back to for the last call
MockOfCall == mock_domain_stats(acall.pair.domain, acall.pair.country, acall.period)

Called == apc = "ready" /\ ncalls > 0

\* the try block of the last call raised
RaisedInTry ==
    TryBlock(acall.pair.domain, acall.pair.country, acall.period, acall.changes_period,
             VendorOf(acall.vendor), acall.fault, AHREFS_TOKEN, AHREFS_API_TOKEN).exc # ""

\* C4 as stated: in real-data mode, whatever exception is raised in the try block,
\* fetch_stats does not propagate it and returns mock_domain_stats(domain, country,
\* period).
C4_AnyErrorFallsBack ==
    (Called /\ ~USE_MOCK_DATA /\ RaisedInTry) =>
        (aresult.exc = "" /\ aresult.stats = MockOfCall)

\* no non-empty token under either name, in the secrets or in the environment
NoTokenConfigured ==
    \A key \in {"AHREFS_API_TOKEN", "A_HREFS_API_TOKEN"} :
        /\ InSecrets(secrets, key) => Strip(secrets.d[key]) = <<>>
        /\ key \in DOMAIN env => Strip(env[key]) = <<>>

\* C5: after start-up, USE_MOCK_DATA false implies a non-empty token; and when no
\* token is configured, whatever USE_MOCK_DATA says, every fetch_stats call returns
\* mock_domain_stats(...) and no AhrefsClient is constructed and no HTTP request sent.
C5_NoTokenMeansMock ==
    apc = "ready" =>
        /\ ~USE_MOCK_DATA => AHREFS_TOKEN # <<>>
        /\ NoTokenConfigured =>
               /\ USE_MOCK_DATA
               /\ clients = 0
               /\ sent = 0
               /\ ncalls > 0 => (aresult.exc = "" /\ aresult.stats = MockOfCall)

\* real data was asked for, no token is configured, and a call was answered
C5_Witness ==
    /\ Called
    /\ NoTokenConfigured
    /\ ~MockRequested(USE_MOCK_DATA_STR(secrets, env))
    /\ aresult.exc = ""
    /\ aresult.stats = MockOfCall
    /\ clients = 0

\* C7 as stated: with mock mode off, a token configured and all three endpoints
\* answering successfully, fetch_stats returns the metric values extracted from the
\* API responses, not the fixture values.
C7_RealValuesReturned ==
    (Called /\ ~USE_MOCK_DATA /\ AHREFS_TOKEN # <<>> /\ acall.fault = NoFault
        /\ acall.vendor = "answering") =>
        /\ aresult.exc = ""
        /\ aresult.stats # MockOfCall
        /\ LET api == _extract_metrics_from_overview(
                           overview(acall.pair.domain, acall.pair.country, AllOk))
           IN  /\ \A m \in ChangeMetrics : aresult.stats[m].value = api[m]
               /\ aresult.stats.authority_score = api["authority_score"]

\* the value the mode is to be decided by: the secrets' USE_MOCK_DATA when the
\* secrets contain the key, else the environment's, else the default "true"
DecidingValue ==
    IF InSecrets(secrets, "USE_MOCK_DATA") THEN Strip(secrets.d["USE_MOCK_DATA"])
    ELSE getenv(env, "USE_MOCK_DATA", TrueText)

\* C11 as stated: the mode defaults to mock, a USE_MOCK_DATA value present in the
\* secrets decides the mode (the environment variable counts only when the secrets
\* lack the key), and real-data mode is selected only when the deciding value is,
\* case-insensitively, 'false', '0' or 'no'.
C11_SecretsDecideMode ==
    apc = "ready" => (~USE_MOCK_DATA => Lower(DecidingValue) \in NotRealTexts)

\* the non-empty tokens stored in the secrets, and those stored in the environment
SecretTokens ==
    {Strip(secrets.d[key]) : key \in {k \in {"AHREFS_API_TOKEN", "A_HREFS_API_TOKEN"} :
                                         InSecrets(secrets, k)}} \ {<<>>}

EnvTokens ==
    {Strip(env[key]) : key \in {"AHREFS_API_TOKEN", "A_HREFS_API_TOKEN"} \cap DOMAIN env}
        \ {<<>>}

\* C12 as stated: get_ahrefs_token returns a non-empty token whenever a non-empty
\* token is stored under either name in the secrets or in the environment, and a
\* token of the secrets is returned in preference to one of the environment.
C12_TokenFound ==
    apc = "ready" =>
        /\ (SecretTokens \cup EnvTokens # {}) => AHREFS_TOKEN # <<>>
        /\ SecretTokens # {} => AHREFS_TOKEN \in SecretTokens

====
